---------------------------- MODULE Spec2Model ----------------------------
(***************************************************************************)
(* The Sound component of react-hifi (src/components/Sound/index.tsx):     *)
(* a React class component that drives an <audio> element, a chain of      *)
(* biquad filters built from the `equalizer` prop and a                    *)
(* requestAnimationFrame loop that samples the analyser.                   *)
(*                                                                         *)
(* Optional props are modelled as sequences of length 0 or 1: None is an   *)
(* absent (undefined) prop, Some(v) a prop that holds v.  An equalizer is  *)
(* the sequence of its [key, value] entries in the iteration order of      *)
(* Object.keys; keys are the numbers Number(key) yields.  Times are whole  *)
(* seconds, gains whole dB, the volume gain is kept in hundredths.         *)
(***************************************************************************)
EXTENDS Integers, Sequences, FiniteSets, TLC

VARIABLES
    props,          \* this.props
    prevProps,      \* the prevProps argument of componentDidUpdate when it ran last,
                    \* this.props after any other handler
    audio,          \* this.audio: [paused, currentTime]
    gainValue,      \* this.gainNode.gain.value, in hundredths
    panValue,       \* this.stereoPanner.pan.value
    filters,        \* this.filters
    qValues,        \* this.qValues
    frequencyData,  \* this.frequencyData: the spectrum read last (0: all zeros)
    spectrum,       \* the spectrum the analyser holds
    visualization,  \* the data the last handler gave to onVisualizationChange
    animationFrame, \* this.animationFrame (0: never assigned)
    frameRequests,  \* handles of the animation frame callbacks still scheduled
    playPromises,   \* number of audio.play() promises not yet settled
    cmds,           \* what the last handler issued to the audio element and the console
    gainWrites,     \* the indices of this.filters whose gain the last handler wrote
    chainBuilt,     \* TRUE when the last handler ran createFilterNodes
    mounted,        \* FALSE once React has unmounted the component
    aborted,        \* TRUE once a lifecycle method has thrown
    last            \* the handler that ran last

vars == <<props, prevProps, audio, gainValue, panValue, filters, qValues,
          animationFrame, frameRequests, playPromises, cmds, gainWrites,
          chainBuilt, mounted, aborted, last, frequencyData, spectrum,
          visualization>>

---------------------------------------------------------------------------
(* Bounds of the model. *)

\* audio.play() promises that may be pending at once
MaxPlayPromises == 1
\* animation frame callbacks that may be scheduled at once
MaxFrameRequests == 2
\* largest position prop, in seconds
MaxPosition == 2
\* largest number of equalizer bands
MaxBands == 3
\* the spectra the analyser may hold are 0..MaxSpectrum
MaxSpectrum == 1

---------------------------------------------------------------------------
(* Optional values and the JavaScript conversions the component relies on. *)

None == <<>>
Some(v) == <<v>>
IsSome(o) == o # <<>>
OrElse(o, d) == IF o = <<>> THEN d ELSE o[1]

\* `if (position)`: undefined and 0 are falsy
Truthy(o) == o # <<>> /\ o[1] # 0

Abs(x) == IF x < 0 THEN -x ELSE x
Min(a, b) == IF a < b THEN a ELSE b

\* Sound.status
PAUSED == "PAUSED"
PLAYING == "PLAYING"
STOPPED == "STOPPED"

ObjectKeys(eq) == [i \in 1..Len(eq) |-> eq[i][1]]
ObjectValues(eq) == [i \in 1..Len(eq) |-> eq[i][2]]

\* Object.entries(eq).toString(): the keys and values, flattened and joined
\* by commas; the tokens hold no comma, so the string is its token list.
RECURSIVE EntriesToString(_)
EntriesToString(eq) ==
    IF eq = <<>> THEN <<>>
    ELSE <<eq[1][1], eq[1][2]>> \o EntriesToString(Tail(eq))

---------------------------------------------------------------------------
(* The instance as a record, so that a handler is a composition of the     *)
(* methods it calls.                                                       *)

This ==
    [audio |-> audio, gainValue |-> gainValue, panValue |-> panValue,
     filters |-> filters, qValues |-> qValues,
     animationFrame |-> animationFrame, frameRequests |-> frameRequests,
     playPromises |-> playPromises, cmds |-> <<>>, gainWrites |-> {},
     chainBuilt |-> FALSE, aborted |-> aborted,
     frequencyData |-> frequencyData, spectrum |-> spectrum,
     visualization |-> None]

Becomes(s) ==
    /\ audio' = s.audio
    /\ gainValue' = s.gainValue
    /\ panValue' = s.panValue
    /\ filters' = s.filters
    /\ qValues' = s.qValues
    /\ animationFrame' = s.animationFrame
    /\ frameRequests' = s.frameRequests
    /\ playPromises' = s.playPromises
    /\ cmds' = s.cmds
    /\ gainWrites' = s.gainWrites
    /\ chainBuilt' = s.chainBuilt
    /\ aborted' = s.aborted
    /\ frequencyData' = s.frequencyData
    /\ spectrum' = s.spectrum
    /\ visualization' = s.visualization

WithinBounds(s) ==
    /\ s.playPromises <= MaxPlayPromises
    /\ Cardinality(s.frameRequests) <= MaxFrameRequests

\* requestAnimationFrame returns a handle no scheduled callback has.  Real
\* handles only grow; the model reuses the smallest handle no scheduled
\* callback holds.  The only reader of a handle is cancelAnimationFrame, and
\* the caller overwrites this.animationFrame with the new handle, so a stale
\* handle is never confused with a reused one.
NewHandle(s) ==
    CHOOSE h \in 1..(Cardinality(s.frameRequests) + 1) :
        /\ h \notin s.frameRequests
        /\ \A k \in 1..(h - 1) : k \in s.frameRequests

cancelAnimationFrame(s, h) == [s EXCEPT !.frameRequests = @ \ {h}]

---------------------------------------------------------------------------
(* The methods of Sound. *)

\* Mutant: Q taken over the gap to the next key only, not over the span from
\* the previous key to the next one.
createFilterNodes_NeighbourGap(s, p) ==
    IF ~IsSome(p.equalizer) THEN [s EXCEPT !.chainBuilt = TRUE]
    ELSE
        LET eq == p.equalizer[1]
            arr == ObjectKeys(eq)
            n == Len(arr)
            preAmp == OrElse(p.preAmp, 0)
            q == [i \in 1..n |->
                    IF i = 1 \/ i = n THEN None
                    ELSE Some(<<2 * arr[i], Abs(arr[i + 1] - arr[i])>>)]
            node(i) ==
                [type |-> IF i = 1 THEN "lowshelf"
                          ELSE IF i = n THEN "highshelf" ELSE "peaking",
                 frequency |-> arr[i],
                 gain |-> eq[i][2] + preAmp,
                 Q |-> IF i = 1 \/ i = n THEN None ELSE q[i]]
        IN  [s EXCEPT !.chainBuilt = TRUE,
                      !.qValues = q,
                      !.filters = @ \o [i \in 1..n |-> node(i)]]

\* Mutant: the shelf of a first-or-last stage chosen by `i === arr.length - 1`
\* instead of `i`, so that a single stage is a high shelf.
createFilterNodes_LastFirst(s, p) ==
    IF ~IsSome(p.equalizer) THEN [s EXCEPT !.chainBuilt = TRUE]
    ELSE
        LET eq == p.equalizer[1]
            arr == ObjectKeys(eq)
            n == Len(arr)
            preAmp == OrElse(p.preAmp, 0)
            q == [i \in 1..n |->
                    IF i = 1 \/ i = n THEN None
                    ELSE Some(<<2 * arr[i], Abs(arr[i + 1] - arr[i - 1])>>)]
            node(i) ==
                [type |-> IF i = n THEN "highshelf"
                          ELSE IF i = 1 THEN "lowshelf" ELSE "peaking",
                 frequency |-> arr[i],
                 gain |-> eq[i][2] + preAmp,
                 Q |-> IF i = 1 \/ i = n THEN None ELSE q[i]]
        IN  [s EXCEPT !.chainBuilt = TRUE,
                      !.qValues = q,
                      !.filters = @ \o [i \in 1..n |-> node(i)]]

createFilterNodes(s, p) ==
    IF ~IsSome(p.equalizer) THEN [s EXCEPT !.chainBuilt = TRUE]
    ELSE
        LET eq == p.equalizer[1]
            arr == ObjectKeys(eq)
            n == Len(arr)
            preAmp == OrElse(p.preAmp, 0)
            q == [i \in 1..n |->
                    IF i = 1 \/ i = n THEN None
                    ELSE Some(<<2 * arr[i], Abs(arr[i + 1] - arr[i - 1])>>)]
            node(i) ==
                [type |-> IF i = 1 THEN "lowshelf"
                          ELSE IF i = n THEN "highshelf" ELSE "peaking",
                 frequency |-> arr[i],
                 gain |-> eq[i][2] + preAmp,
                 Q |-> IF i = 1 \/ i = n THEN None ELSE q[i]]
        IN  [s EXCEPT !.chainBuilt = TRUE,
                      !.qValues = q,
                      !.filters = @ \o [i \in 1..n |-> node(i)]]

\* HERTZ_ITER, in tenths of a hertz
HERTZ_ITER == 234
\* analyser.fftSize; frequencyBinCount is half of it
FftSize == 32768

\* Bin k of spectrum d, a Uint8Array of frequencyBinCount bytes: spectrum 0
\* is silence, spectrum d > 0 rises by d per bin.  A read past the end
\* yields undefined, here -1.
Sample(d, k) == IF k < FftSize \div 2 THEN (d * k) % 256 ELSE -1

\* Math.round of a quotient of non-negative integers
Round(a, b) == (2 * a + b) \div (2 * b)

\* Mutant: the window test without its lower bound `i > freq`.
RECURSIVE VizLoop_NoLowerBound(_, _, _, _, _)
VizLoop_NoLowerBound(frequencies, data, i, currentIndex, values) ==
    IF ~(i <= 10 * frequencies[Len(frequencies)] + HERTZ_ITER) THEN values
    ELSE IF /\ currentIndex <= Len(frequencies)
            /\ i < 10 * frequencies[currentIndex] + HERTZ_ITER
         THEN VizLoop_NoLowerBound(frequencies, data, i + HERTZ_ITER,
                                   currentIndex + 1,
                                   Append(values, Sample(data, Round(i, HERTZ_ITER))))
         ELSE VizLoop_NoLowerBound(frequencies, data, i + HERTZ_ITER,
                                   currentIndex, values)

\* The for loop of formatDataVizByFrequency from checkpoint i on, all
\* frequencies in tenths of a hertz.  frequencies[currentIndex] past the end
\* is undefined, which no comparison satisfies.
RECURSIVE VizLoop(_, _, _, _, _)
VizLoop(frequencies, data, i, currentIndex, values) ==
    IF ~(i <= 10 * frequencies[Len(frequencies)] + HERTZ_ITER) THEN values
    ELSE IF /\ currentIndex <= Len(frequencies)
            /\ i > 10 * frequencies[currentIndex]
            /\ i < 10 * frequencies[currentIndex] + HERTZ_ITER
         THEN VizLoop(frequencies, data, i + HERTZ_ITER, currentIndex + 1,
                      Append(values, Sample(data, Round(i, HERTZ_ITER))))
         ELSE VizLoop(frequencies, data, i + HERTZ_ITER, currentIndex, values)

\* With no key the loop bound is undefined + 23.4 = NaN and the loop does
\* not run.
formatDataVizByFrequency(p, data) ==
    IF IsSome(p.equalizer) /\ p.equalizer[1] # <<>>
    THEN VizLoop(ObjectKeys(p.equalizer[1]), data, 0, 1, <<>>)
    ELSE <<>>

\* Schedules itself for the next frame, reads the analyser, then hands the
\* formatted data to the callback when there is one.
handleVisualizationChange(s, p) ==
    LET h == NewHandle(s)
    IN  [s EXCEPT !.animationFrame = h,
                  !.frameRequests = @ \cup {h},
                  !.frequencyData = s.spectrum,
                  !.visualization =
                      IF p.onVisualizationChange
                      THEN Some(formatDataVizByFrequency(p, s.spectrum))
                      ELSE @,
                  !.cmds = IF p.onVisualizationChange
                           THEN Append(@, "onVisualizationChange") ELSE @]

\* Mutant: seeks on every change of a non-zero position.
shouldUpdatePosition_AnyChange(prev, p) ==
    Truthy(p.position) /\ p.position[1] # OrElse(prev.position, 0)

shouldUpdatePosition(prev, p) ==
    LET prevPosition == OrElse(prev.position, 0)
    IN  IF Truthy(p.position)
        THEN p.position[1] < prevPosition \/ p.position[1] - prevPosition > 1
        ELSE FALSE

\* Mutant: the comparison of the entries without its negation.
shouldUpdateEqualizer_Inverted(prev, p) ==
    \/ /\ IsSome(p.equalizer)
       /\ IsSome(prev.equalizer)
       /\ EntriesToString(p.equalizer[1]) = EntriesToString(prev.equalizer[1])
    \/ p.preAmp # prev.preAmp

shouldUpdateEqualizer(prev, p) ==
    \/ /\ IsSome(p.equalizer)
       /\ IsSome(prev.equalizer)
       /\ EntriesToString(p.equalizer[1]) # EntriesToString(prev.equalizer[1])
    \/ p.preAmp # prev.preAmp

setVolume(s, p) == [s EXCEPT !.gainValue = OrElse(p.volume, 100)]

setPosition(s, p) ==
    IF Truthy(p.position)
    THEN [s EXCEPT !.audio.currentTime = p.position[1],
                   !.cmds = Append(@, "seek")]
    ELSE s

setStereoPan(s, p) ==
    [s EXCEPT !.panValue = IF Truthy(p.stereoPan) THEN p.stereoPan[1] ELSE 0]

\* audio.play() returns a promise; its then/catch callbacks run later, as
\* the actions PlayResolved and PlayRejected.
play(s) ==
    [s EXCEPT !.audio.paused = FALSE,
              !.playPromises = @ + 1,
              !.cmds = Append(@, "play")]

pause(s) ==
    LET s1 == [s EXCEPT !.audio.paused = TRUE, !.cmds = Append(@, "pause")]
    IN  IF s1.animationFrame # 0
        THEN cancelAnimationFrame(s1, s1.animationFrame)
        ELSE s1

stop(s) ==
    LET s1 == pause(s)
    IN  [s1 EXCEPT !.audio.currentTime = 0, !.cmds = Append(@, "zero")]

\* Mutant: the PAUSED case without its break, falling through to stop().
setPlayerState_Fallthrough(s, p) ==
    IF p.playStatus = Some(PAUSED) THEN stop(pause(s))
    ELSE IF p.playStatus = Some(STOPPED) THEN stop(s)
    ELSE play(s)

setPlayerState(s, p) ==
    IF p.playStatus = Some(PAUSED) THEN pause(s)
    ELSE IF p.playStatus = Some(STOPPED) THEN stop(s)
    ELSE play(s)

\* The forEach of componentDidUpdate: this.filters[idx].gain.value = ... for
\* each value in turn; an idx past the end of this.filters reads undefined
\* and the assignment throws a TypeError, after the earlier writes.
patchGains(s, p) ==
    LET values == ObjectValues(OrElse(p.equalizer, <<>>))
        preAmp == OrElse(p.preAmp, 0)
        m == Min(Len(values), Len(s.filters))
    IN  [s EXCEPT !.filters = [i \in 1..Len(s.filters) |->
                                  IF i <= m
                                  THEN [s.filters[i] EXCEPT !.gain = values[i] + preAmp]
                                  ELSE s.filters[i]],
                  !.gainWrites = 1..m,
                  !.aborted = Len(values) > Len(s.filters)]

\* Mutant: the seek applied after the play status.
componentDidUpdate_SeekLast(s, prev, p) ==
    LET s1 == IF p.volume # prev.volume THEN setVolume(s, p) ELSE s
        s2 == IF p.playStatus # prev.playStatus THEN setPlayerState(s1, p) ELSE s1
        s3 == IF shouldUpdatePosition(prev, p) THEN setPosition(s2, p) ELSE s2
        s4 == IF Some(OrElse(p.stereoPan, 0)) # prev.stereoPan
              THEN setStereoPan(s3, p) ELSE s3
        s5 == IF /\ ~prev.onVisualizationChange
                 /\ p.onVisualizationChange
                 /\ IsSome(p.equalizer)
              THEN handleVisualizationChange(s4, p) ELSE s4
        s6 == IF prev.onVisualizationChange /\ ~p.onVisualizationChange
              THEN cancelAnimationFrame(s5, s5.animationFrame) ELSE s5
    IN  IF shouldUpdateEqualizer(prev, p) THEN patchGains(s6, p) ELSE s6

\* Mutant: the visualization is started before the play status is applied.
componentDidUpdate_StartFirst(s, prev, p) ==
    LET s1 == IF p.volume # prev.volume THEN setVolume(s, p) ELSE s
        s2 == IF shouldUpdatePosition(prev, p) THEN setPosition(s1, p) ELSE s1
        s3 == IF /\ ~prev.onVisualizationChange
                 /\ p.onVisualizationChange
                 /\ IsSome(p.equalizer)
              THEN handleVisualizationChange(s2, p) ELSE s2
        s4 == IF p.playStatus # prev.playStatus THEN setPlayerState(s3, p) ELSE s3
        s5 == IF Some(OrElse(p.stereoPan, 0)) # prev.stereoPan
              THEN setStereoPan(s4, p) ELSE s4
        s6 == IF prev.onVisualizationChange /\ ~p.onVisualizationChange
              THEN cancelAnimationFrame(s5, s5.animationFrame) ELSE s5
    IN  IF shouldUpdateEqualizer(prev, p) THEN patchGains(s6, p) ELSE s6

componentDidUpdate(s, prev, p) ==
    LET s1 == IF p.volume # prev.volume THEN setVolume(s, p) ELSE s
        s2 == IF shouldUpdatePosition(prev, p) THEN setPosition(s1, p) ELSE s1
        s3 == IF p.playStatus # prev.playStatus THEN setPlayerState(s2, p) ELSE s2
        s4 == IF Some(OrElse(p.stereoPan, 0)) # prev.stereoPan
              THEN setStereoPan(s3, p) ELSE s3
        s5 == IF /\ ~prev.onVisualizationChange
                 /\ p.onVisualizationChange
                 /\ IsSome(p.equalizer)
              THEN handleVisualizationChange(s4, p) ELSE s4
        s6 == IF prev.onVisualizationChange /\ ~p.onVisualizationChange
              THEN cancelAnimationFrame(s5, s5.animationFrame) ELSE s5
    IN  IF shouldUpdateEqualizer(prev, p) THEN patchGains(s6, p) ELSE s6

componentDidMount(p) ==
    LET s0 == [audio |-> [paused |-> TRUE, currentTime |-> 0],
               gainValue |-> 100,
               panValue |-> IF Truthy(p.stereoPan) THEN p.stereoPan[1] ELSE 0,
               filters |-> <<>>, qValues |-> <<>>,
               animationFrame |-> 0, frameRequests |-> {},
               playPromises |-> 0, cmds |-> <<>>, gainWrites |-> {},
               chainBuilt |-> FALSE, aborted |-> FALSE,
               frequencyData |-> 0, spectrum |-> 0, visualization |-> None]
        s1 == createFilterNodes(s0, p)
        s2 == setVolume(s1, p)
        s3 == setPlayerState(s2, p)
    IN  setStereoPan(s3, p)

---------------------------------------------------------------------------
(* The props a parent may pass. *)

PlayStatuses == {None, Some(PLAYING), Some(PAUSED), Some(STOPPED), Some("OTHER")}
Positions == {None} \cup {Some(t) : t \in 0..MaxPosition}

\* Play status, visualization callback and presence of an equalizer vary.
PropsTransport ==
    [playStatus : PlayStatuses,
     position : {None},
     volume : {None},
     onVisualizationChange : BOOLEAN,
     equalizer : {None, Some(<< <<60, 0>>, <<310, 0>> >>)},
     preAmp : {None},
     stereoPan : {None}]

\* Play status and position vary; a visualization callback and an
\* equalizer are present throughout.
PropsPosition ==
    [playStatus : PlayStatuses,
     position : Positions,
     volume : {None},
     onVisualizationChange : {TRUE},
     equalizer : {Some(<< <<60, 0>>, <<310, 0>> >>)},
     preAmp : {None},
     stereoPan : {None}]

\* The equalizers: the first n of the bands below, in ascending order (the
\* order in which Object.keys lists integer keys), with all gains 0 or with
\* the gain of the i-th band i dB.
BandFrequencies == <<60, 170, 310, 600, 1000, 3000>>
Equalizers ==
    {[i \in 1..n |-> <<BandFrequencies[i], k * i>>] : n \in 0..MaxBands, k \in {0, 1}}

\* Equalizer and preAmp vary; the status is absent (playing) and a
\* visualization callback is present throughout.
PropsEqualizer ==
    [playStatus : {None},
     position : {None},
     volume : {None},
     onVisualizationChange : {TRUE},
     equalizer : {None} \cup {Some(e) : e \in Equalizers},
     preAmp : {None, Some(1)},
     stereoPan : {None}]

\* The equalizers of the visualization runs: gains 0; bands far apart, bands
\* closer than one HERTZ_ITER, bands in descending order (keys that are no
\* array indices, such as "310.0", keep their insertion order).
VisualizationBands ==
    {<<>>, <<60>>, <<60, 70>>, <<60, 310>>, <<310, 60>>, <<60, 310, 1000>>}

\* The equalizer varies; the status is absent and a visualization callback
\* is present throughout.
PropsVisualization ==
    [playStatus : {None},
     position : {None},
     volume : {None},
     onVisualizationChange : {TRUE},
     equalizer : {None} \cup {Some([i \in 1..Len(b) |-> <<b[i], 0>>]) :
                                 b \in VisualizationBands},
     preAmp : {None},
     stereoPan : {None}]

---------------------------------------------------------------------------
(* The actions: React's lifecycle calls, the settlement of a play promise, *)
(* an animation frame.                                                     *)

Mount(P) ==
    /\ props \in P
    /\ prevProps = props
    /\ mounted = TRUE
    /\ last = "componentDidMount"
    /\ LET s == componentDidMount(props)
       IN  /\ audio = s.audio
           /\ gainValue = s.gainValue
           /\ panValue = s.panValue
           /\ filters = s.filters
           /\ qValues = s.qValues
           /\ animationFrame = s.animationFrame
           /\ frameRequests = s.frameRequests
           /\ playPromises = s.playPromises
           /\ cmds = s.cmds
           /\ gainWrites = s.gainWrites
           /\ chainBuilt = s.chainBuilt
           /\ aborted = s.aborted
           /\ frequencyData = s.frequencyData
           /\ spectrum = s.spectrum
           /\ visualization = s.visualization

\* React re-renders with new props (equal ones included) and calls
\* componentDidUpdate(prevProps).
Update(P) ==
    /\ mounted /\ ~aborted
    /\ \E p \in P :
        LET s == componentDidUpdate(This, props, p)
        IN  /\ WithinBounds(s)
            /\ props' = p
            /\ prevProps' = props
            /\ Becomes(s)
    /\ last' = "componentDidUpdate"
    /\ UNCHANGED mounted

\* play().then(...)
PlayResolved ==
    /\ playPromises > 0
    /\ LET s0 == [This EXCEPT !.playPromises = @ - 1]
           s == IF props.onVisualizationChange /\ IsSome(props.equalizer)
                THEN handleVisualizationChange(s0, props) ELSE s0
       IN  WithinBounds(s) /\ Becomes(s)
    /\ last' = "then"
    /\ prevProps' = props
    /\ UNCHANGED <<props, mounted>>

\* Mutant: a rejected play() is logged and tried again.
PlayRejected_Retry ==
    /\ playPromises > 0
    /\ Becomes(play([This EXCEPT !.playPromises = @ - 1,
                                 !.cmds = <<"console.error">>]))
    /\ last' = "catch"
    /\ prevProps' = props
    /\ UNCHANGED <<props, mounted>>

\* play().catch(console.error)
PlayRejected ==
    /\ playPromises > 0
    /\ Becomes([This EXCEPT !.playPromises = @ - 1,
                            !.cmds = <<"console.error">>])
    /\ last' = "catch"
    /\ prevProps' = props
    /\ UNCHANGED <<props, mounted>>

\* The browser runs a scheduled animation frame callback, which is
\* handleVisualizationChange.
AnimationFrame ==
    /\ \E h \in frameRequests :
        Becomes(handleVisualizationChange(
                    [This EXCEPT !.frameRequests = @ \ {h}], props))
    /\ last' = "animationFrame"
    /\ prevProps' = props
    /\ UNCHANGED <<props, mounted>>

\* React unmounts the component.  Sound defines no componentWillUnmount, so
\* nothing of the instance changes.
Unmount ==
    /\ mounted
    /\ mounted' = FALSE
    /\ last' = "unmount"
    /\ cmds' = <<>>
    /\ gainWrites' = {}
    /\ chainBuilt' = FALSE
    /\ visualization' = None
    /\ prevProps' = props
    /\ UNCHANGED <<frequencyData, spectrum, props, audio, gainValue, panValue, filters, qValues,
                   animationFrame, frameRequests, playPromises, aborted>>

\* The audio that plays changes what the analyser holds.
Analyse ==
    /\ \E d \in 0..MaxSpectrum : d # spectrum /\ spectrum' = d
    /\ UNCHANGED <<props, prevProps, audio, gainValue, panValue, filters,
                   qValues, animationFrame, frameRequests, playPromises, cmds,
                   gainWrites, chainBuilt, mounted, aborted, last,
                   frequencyData, visualization>>

Init == Mount(PropsTransport)

UpdateTransport == Update(PropsTransport)

Next ==
    \/ UpdateTransport
    \/ PlayResolved
    \/ PlayRejected
    \/ AnimationFrame
    \/ Unmount

Spec == Init /\ [][Next]_vars

InitPosition == Mount(PropsPosition)

UpdatePosition == Update(PropsPosition)

NextPosition ==
    \/ UpdatePosition
    \/ PlayResolved
    \/ PlayRejected
    \/ AnimationFrame
    \/ Unmount

SpecPosition == InitPosition /\ [][NextPosition]_vars

InitEqualizer == Mount(PropsEqualizer)

UpdateEqualizer == Update(PropsEqualizer)

NextEqualizer ==
    \/ UpdateEqualizer
    \/ PlayResolved
    \/ PlayRejected
    \/ AnimationFrame
    \/ Unmount

SpecEqualizer == InitEqualizer /\ [][NextEqualizer]_vars

InitVisualization == Mount(PropsVisualization)

UpdateVisualization == Update(PropsVisualization)

NextVisualization ==
    \/ UpdateVisualization
    \/ PlayResolved
    \/ PlayRejected
    \/ AnimationFrame
    \/ Analyse
    \/ Unmount

SpecVisualization == InitVisualization /\ [][NextVisualization]_vars

---------------------------------------------------------------------------
(* The claims.  An update is a state whose last handler is                 *)
(* componentDidUpdate: prevProps and props are its previous and new        *)
(* configuration, cmds what it issued.                                     *)

Updated == last = "componentDidUpdate"

\* The keys of an equalizer prop, none when the prop is absent.
KeysOf(o) == ObjectKeys(OrElse(o, <<>>))

\* What the play status transition issued: cmds without the seek of
\* setPosition and the visualization callback.
StatusCmds == SelectSeq(cmds, LAMBDA c : c \in {"play", "pause", "zero"})

\* C1: at most one sampling tick loop is active: never are two animation
\* frame callbacks scheduled at once.
SingleTickLoop == Cardinality(frameRequests) <= 1

\* C2: once the component is torn down no animation frame callback is
\* scheduled and none runs.
TeardownCancelsLoop ==
    ~mounted => (frameRequests = {} /\ last # "animationFrame")

\* C3: an update whose playStatus differs from the previous one issues, for
\* PAUSED, a pause and nothing else; for STOPPED, a pause and then the reset
\* of currentTime to zero; for any other value, absent included, a play and
\* no pause.
PlayStatusTransition ==
    (Updated /\ props.playStatus # prevProps.playStatus) =>
        IF props.playStatus = Some(PAUSED) THEN StatusCmds = <<"pause">>
        ELSE IF props.playStatus = Some(STOPPED)
        THEN StatusCmds = <<"pause", "zero">> /\ audio.currentTime = 0
        ELSE StatusCmds = <<"play">>

PlayStatusTransitionWitness ==
    /\ Updated
    /\ prevProps.playStatus = Some("OTHER")
    /\ props.playStatus = Some(STOPPED)
    /\ cmds = <<"seek", "pause", "zero">>

\* C4: an update whose new position is below the previous one (a rewind, to
\* any position >= 0) or more than 1 second ahead of it issues a seek.
SeekOnRewindOrJump ==
    (/\ Updated
     /\ IsSome(props.position)
     /\ \/ props.position[1] < OrElse(prevProps.position, 0)
        \/ props.position[1] - OrElse(prevProps.position, 0) > 1)
    => (\E i \in 1..Len(cmds) : cmds[i] = "seek")

\* C5: an update whose new position equals the previous one (0 when absent)
\* or is ahead of it by at most 1 second issues no seek.
NoSeekOnSmallDrift ==
    (/\ Updated
     /\ IsSome(props.position)
     /\ props.position[1] - OrElse(prevProps.position, 0) \in 0..1)
    => (\A i \in 1..Len(cmds) : cmds[i] # "seek")

NoSeekOnSmallDriftWitness ==
    /\ Updated
    /\ prevProps.position = Some(1)
    /\ props.position = Some(2)
    /\ props.playStatus = prevProps.playStatus
    /\ cmds = <<>>

\* C6: an update to a configuration equal to the previous one issues no
\* play, pause, stop or seek, does not rebuild the filter chain and writes
\* no stage's gain.
SameConfigurationIsNoOp ==
    (Updated /\ props = prevProps) =>
        (cmds = <<>> /\ ~chainBuilt /\ gainWrites = {})

SameConfigurationIsNoOpWitness ==
    /\ Updated
    /\ props = prevProps
    /\ props.playStatus = Some(PLAYING)
    /\ props.position = Some(MaxPosition)
    /\ IsSome(props.equalizer)
    /\ frameRequests # {}

\* C7: after an update that changes the equalizer's keys (one added,
\* removed or reordered) the stages are those a fresh construction from the
\* new configuration produces.
RebuildOnFrequencySetChange ==
    (Updated /\ KeysOf(props.equalizer) # KeysOf(prevProps.equalizer)) =>
        filters = componentDidMount(props).filters

\* C8: an update that keeps the equalizer's keys and changes gains or preAmp
\* leaves the number of stages and each stage's kind, frequency and Q, and
\* sets the gain of the stage at each entry's index to the entry's new gain
\* plus the new preAmp (0 when absent).
GainPatchByIndex ==
    [][(/\ last' = "componentDidUpdate"
        /\ KeysOf(props'.equalizer) = KeysOf(props.equalizer)
        /\ \/ OrElse(props'.equalizer, <<>>) # OrElse(props.equalizer, <<>>)
           \/ props'.preAmp # props.preAmp)
       => (/\ Len(filters') = Len(filters)
           /\ \A i \in 1..Len(filters) :
                /\ filters'[i].type = filters[i].type
                /\ filters'[i].frequency = filters[i].frequency
                /\ filters'[i].Q = filters[i].Q
           /\ \A i \in 1..Len(OrElse(props'.equalizer, <<>>)) :
                /\ i <= Len(filters')
                /\ filters'[i].gain =
                     props'.equalizer[1][i][2] + OrElse(props'.preAmp, 0))]_vars

\* C9: no update aborts with an error.
NoUpdateAborts == ~aborted

\* C10: after an update in which the visualization callback goes from
\* present to absent no animation frame callback is scheduled.
VisualizationOffStopsLoop ==
    (/\ Updated
     /\ prevProps.onVisualizationChange
     /\ ~props.onVisualizationChange)
    => frameRequests = {}

\* C11: construction from an equalizer of n entries yields n stages in the
\* entries' order: the first a low shelf, the last (when n >= 2) a high
\* shelf, the others peaking; no stage for an empty or absent equalizer.
ConstructionKinds ==
    last = "componentDidMount" =>
        LET keys == KeysOf(props.equalizer)
            n == Len(keys)
        IN  /\ Len(filters) = n
            /\ \A i \in 1..n :
                /\ filters[i].frequency = keys[i]
                /\ filters[i].type =
                     IF i = 1 THEN "lowshelf"
                     ELSE IF i = n THEN "highshelf" ELSE "peaking"

ConstructionKindsWitness ==
    /\ last = "componentDidMount"
    /\ Len(KeysOf(props.equalizer)) = 3
    /\ [i \in 1..3 |-> filters[i].type] = <<"lowshelf", "peaking", "highshelf">>

\* C12: the data given to onVisualizationChange holds one value per entry
\* of the equalizer.
OneValuePerBand ==
    IsSome(visualization) =>
        Len(visualization[1]) = Len(KeysOf(props.equalizer))

\* C13: the data given to onVisualizationChange holds at most one value per
\* band, and its k-th value is the sample at bin round(c / step) for a
\* checkpoint c (a multiple of the step) strictly between the k-th band's
\* frequency and that frequency plus one step.
AggregatorWindows ==
    IsSome(visualization) =>
        LET out == visualization[1]
            keys == KeysOf(props.equalizer)
        IN  /\ Len(out) <= Len(keys)
            /\ \A k \in 1..Len(out) :
                \E j \in 0..((10 * keys[k]) \div HERTZ_ITER + 1) :
                    /\ j * HERTZ_ITER > 10 * keys[k]
                    /\ j * HERTZ_ITER < 10 * keys[k] + HERTZ_ITER
                    /\ out[k] = Sample(frequencyData, Round(j * HERTZ_ITER, HERTZ_ITER))

AggregatorWindowsWitness ==
    /\ last = "animationFrame"
    /\ KeysOf(props.equalizer) = <<60, 310, 1000>>
    /\ frequencyData = 1
    /\ visualization = Some(<<3, 14, 43>>)

\* C14: an update that changes playStatus to PAUSED or STOPPED and keeps the
\* presence of the visualization callback leaves no animation frame callback
\* scheduled, and while the audio stays paused with none scheduled no step
\* schedules one, except an update in which the callback goes from absent to
\* present.
TickLoopStaysStopped ==
    [][/\ (/\ last' = "componentDidUpdate"
           /\ props'.playStatus # props.playStatus
           /\ props'.playStatus \in {Some(PAUSED), Some(STOPPED)}
           /\ props'.onVisualizationChange = props.onVisualizationChange)
          => frameRequests' = {}
       /\ (/\ audio.paused
           /\ frameRequests = {}
           /\ audio'.paused
           /\ ~(~props.onVisualizationChange /\ props'.onVisualizationChange))
          => frameRequests' = {}]_vars

\* C15: a rejected play() is reported to console.error and nothing else
\* happens: no animation frame callback is scheduled, no play is issued
\* again, and audio, volume gain, pan and filters stay as they are.
StartFailureOnlyLogs ==
    [][last' = "catch" =>
        /\ cmds' = <<"console.error">>
        /\ playPromises' = playPromises - 1
        /\ frameRequests' = frameRequests
        /\ animationFrame' = animationFrame
        /\ visualization' = None
        /\ audio' = audio
        /\ gainValue' = gainValue
        /\ panValue' = panValue
        /\ filters' = filters]_vars

StartFailureOnlyLogsWitness ==
    /\ last = "catch"
    /\ cmds = <<"console.error">>
    /\ props.onVisualizationChange
    /\ IsSome(props.equalizer)
    /\ props.playStatus = Some(PLAYING)
    /\ playPromises = 0
    /\ frameRequests = {}

\* C16: an update in which the visualization callback goes from absent to
\* present starts the tick loop within that update when an equalizer is
\* configured, whatever the play status and whether or not it changed in
\* the same update; with no equalizer the update does not start the loop.
CallbackAppearsStartsLoop ==
    (Updated /\ ~prevProps.onVisualizationChange /\ props.onVisualizationChange)
    => IF IsSome(props.equalizer)
       THEN /\ animationFrame \in frameRequests
            /\ \E i \in 1..Len(cmds) : cmds[i] = "onVisualizationChange"
       ELSE \A i \in 1..Len(cmds) : cmds[i] # "onVisualizationChange"

CallbackAppearsStartsLoopWitness ==
    /\ Updated
    /\ ~prevProps.onVisualizationChange /\ props.onVisualizationChange
    /\ IsSome(props.equalizer)
    /\ prevProps.playStatus = Some(PLAYING)
    /\ props.playStatus = Some(PAUSED)
    /\ audio.paused
    /\ cmds = <<"pause", "onVisualizationChange">>
    /\ animationFrame \in frameRequests

\* C17: right after componentDidMount the command of the initial play
\* status has been issued (play when absent or unrecognised), the gain stage
\* holds volume (100 when absent) over 100, the pan stage holds stereoPan
\* (0 when absent), and audio.currentTime is the position prop when one is
\* given.
MountInitialisesTransport ==
    last = "componentDidMount" =>
        /\ StatusCmds = IF props.playStatus = Some(PAUSED) THEN <<"pause">>
                        ELSE IF props.playStatus = Some(STOPPED)
                             THEN <<"pause", "zero">>
                             ELSE <<"play">>
        /\ gainValue = OrElse(props.volume, 100)
        /\ panValue = OrElse(props.stereoPan, 0)
        /\ IsSome(props.position) => audio.currentTime = props.position[1]

\* The Q of every stage against the frequencies of the chain: none on the
\* first and the last stage, and on an interior stage the fraction whose
\* product with |frequency[i+1] - frequency[i-1]| is 2 * frequency[i].
QOfConstruction ==
    LET n == Len(filters)
    IN  /\ Len(qValues) = n
        /\ (last = "componentDidMount" /\ IsSome(props.equalizer))
              => [i \in 1..n |-> filters[i].frequency] = KeysOf(props.equalizer)
        /\ \A i \in 1..n :
              IF i = 1 \/ i = n
              THEN filters[i].Q = None /\ qValues[i] = None
              ELSE /\ IsSome(filters[i].Q)
                   /\ filters[i].Q = qValues[i]
                   /\ filters[i].Q[1][2] > 0
                   /\ filters[i].Q[1][1]
                        * Abs(filters[i + 1].frequency - filters[i - 1].frequency)
                      = 2 * filters[i].frequency * filters[i].Q[1][2]

\* C18: every interior stage i has Q * |frequency[i+1] - frequency[i-1]| =
\* 2 * frequency[i] over the key order of the equalizer, the first and the
\* last stage get no Q, and no step after componentDidMount writes a Q.
QFixedAtConstruction ==
    /\ []QOfConstruction
    /\ [][last' # "componentDidMount" =>
            /\ qValues' = qValues
            /\ Len(filters') = Len(filters)
            /\ \A i \in 1..Len(filters) :
                  /\ filters'[i].Q = filters[i].Q
                  /\ filters'[i].frequency = filters[i].frequency]_vars

QFixedAtConstructionWitness ==
    /\ Updated
    /\ gainWrites = {1, 2, 3}
    /\ Len(filters) = 3
    /\ KeysOf(props.equalizer) = <<60, 170, 310>>
    /\ filters[2].gain # 0
    /\ filters[2].Q = Some(<<340, 250>>)
    /\ filters[1].Q = None /\ filters[3].Q = None

\* C19: within one update the seek comes before the commands of the play
\* status, so an update that changes playStatus to STOPPED leaves
\* audio.currentTime at 0 even when it also seeks.
SeekBeforeStatus ==
    Updated =>
        /\ \A i, j \in 1..Len(cmds) :
              (cmds[i] = "seek" /\ cmds[j] \in {"play", "pause", "zero"}) => i < j
        /\ (props.playStatus # prevProps.playStatus
             /\ props.playStatus = Some(STOPPED)) => audio.currentTime = 0

SeekBeforeStatusWitness ==
    /\ Updated
    /\ prevProps.playStatus = Some(PLAYING)
    /\ props.playStatus = Some(STOPPED)
    /\ prevProps.position = Some(0)
    /\ props.position = Some(2)
    /\ cmds = <<"seek", "pause", "zero">>
    /\ audio.currentTime = 0

\* C20: whenever the equalizer of the current props has the frequency keys
\* of the chain built at construction, in the same order, the gain of every
\* stage is the current gain of its entry plus the current preAmp (0 when
\* absent).
GainsFollowProps ==
    (/\ mounted
     /\ IsSome(props.equalizer)
     /\ KeysOf(props.equalizer) = [i \in 1..Len(filters) |-> filters[i].frequency])
    => \A i \in 1..Len(filters) :
          filters[i].gain = props.equalizer[1][i][2] + OrElse(props.preAmp, 0)

=============================================================================
